---- MODULE Spec2Model ----
(***************************************************************************)
(* Model of the Inception SDN controller application                       *)
(* (ryu/app/inception.py): the in-memory caches of class Inception, the    *)
(* ZooKeeper store they are mirrored to, and the three event handlers      *)
(* (switch connect / disconnect, packet-in) with the failover replay.      *)
(*                                                                         *)
(* A handler is one atomic action (Ryu dispatches events to an application *)
(* from a single green thread).  A Python exception ends the handler at    *)
(* the statement that raised it: everything assigned before that statement *)
(* stays assigned, nothing after it runs, and the next event is dispatched *)
(* to the same object.  The failover replay, which is a                    *)
(* loop of packet-in processings at the end of the connect handler, is     *)
(* split into one step per log entry.                                      *)
(*                                                                         *)
(* Packets are data frames identified by their Ethernet source; the ARP    *)
(* and DHCP branches of _process_packet_in call modules that are not part  *)
(* of this model.                                                          *)
(***************************************************************************)
EXTENDS Integers, Sequences, FiniteSets, TLC

\* ---------------------------------------------------------------- bounds
MaxEvents == 4

\* --------------------------------------------------------- configuration
NumSwitches == 2
Dcenter == 1
NeighborDcenter == 2

Dpids == {"s1", "s2"}
Macs == {"h1", "h2"}

SWITCH_MASK == "swc_mask"
DCENTER_MASK == "dc_mask"

\* management address of each switch (socket.getpeername())
IpOf(d) == IF d = "s1" THEN "ip1" ELSE "ip2"

\* Port descriptors of a connect event: the port number and what the name
\* of the port parses to ('obr<x>_<ip>' / 'eth_dhcpp' / 'gate_<dc>_<ip>' /
\* anything else).
Port(no, kind, ip, dc) == [port_no |-> no, kind |-> kind, peer_ip |-> ip, dcenter |-> dc]

PortLayouts(d) ==
    IF d = "s1"
    THEN { << Port("1", "local", "-", 0), Port("2", "local", "-", 0),
              Port("3", "obr", "ip2", 0), Port("5", "dhcp", "-", 0) >> }
    ELSE { << Port("1", "local", "-", 0), Port("3", "obr", "ip1", 0),
              Port("4", "gate", "gw2", NeighborDcenter) >>,
           << Port("4", "gate", "gw2", NeighborDcenter),
              Port("1", "local", "-", 0), Port("3", "obr", "ip1", 0) >> }

\* ports a packet-in can come from
InPorts(d) == IF d = "s1" THEN {"1", "2"} ELSE {"1", "4"}

\* Failover entries (switch, port, payload) a previous controller may have
\* left in the store ("Check if any work is left by previous controller");
\* this controller only deletes them.
InitLogs ==
    { {},
      { <<"s1", "1", "h1">> },
      { <<"s1", "1", "h1">>, <<"s2", "1", "h1">> } }

\* ------------------------------------------------------------- helpers
Empty == [x \in {} |-> 0]
Put(f, k, v) == [x \in (DOMAIN f) \cup {k} |-> IF x = k THEN v ELSE f[x]]
Del(f, k) == [x \in (DOMAIN f) \ {k} |-> f[x]]

\* ------------------------------------------------- virtual address codec
create_swc_vmac(dcenter, swc_id) == <<dcenter, swc_id, 0>>
create_dc_vmac(dcenter) == <<dcenter, 0, 0>>
generate_vm_id(top_id) == top_id
create_vm_vmac(switch_vmac, vm_id) == <<switch_vmac[1], switch_vmac[2], vm_id>>
get_swc_prefix(vmac) == <<vmac[1], vmac[2], 0>>
get_dc_prefix(vmac) == <<vmac[1], 0, 0>>

\* ------------------------------------------------------ ZooKeeper store
\* A znode path is <<directory, name, child>>, child "-" for a znode right
\* under the directory.  The directories themselves always exist
\* (ensure_path in __init__).
DPID_TO_ID == "dpid_to_id"
DPID_TO_VMAC == "dpid_to_vmac"
MAC_TO_POSITION == "mac_to_position"
MAC_TO_FLOWS == "mac_to_flows"
ZK_FAILOVER == "failover"

Path(dir, name) == <<dir, name, "-">>
ChildPath(dir, name, child) == <<dir, name, child>>

ParentExists(z, path) == path[3] = "-" \/ <<path[1], path[2], "-">> \in DOMAIN z
HasChildren(z, path) ==
    path[3] = "-" /\ \E q \in DOMAIN z : q[1] = path[1] /\ q[2] = path[2] /\ q[3] # "-"

\* one operation of a transaction can be applied to store z
OpOk(z, o) ==
    CASE o.op = "create" -> o.path \notin DOMAIN z /\ ParentExists(z, o.path)
      [] o.op = "set_data" -> o.path \in DOMAIN z
      [] o.op = "delete" -> o.path \in DOMAIN z /\ ~HasChildren(z, o.path)

OpApply(z, o) ==
    CASE o.op = "create" -> Put(z, o.path, o.data)
      [] o.op = "set_data" -> Put(z, o.path, o.data)
      [] o.op = "delete" -> Del(z, o.path)

\* kazoo TransactionRequest.commit(): all operations apply, or none does
RECURSIVE TxnResult(_, _)
TxnResult(z, ops) ==
    IF ops = <<>> THEN [ok |-> TRUE, zk |-> z]
    ELSE IF OpOk(z, Head(ops)) THEN TxnResult(OpApply(z, Head(ops)), Tail(ops))
    ELSE [ok |-> FALSE, zk |-> z]

\* --------------------------------------------------------------- state
VARIABLES
    dpid_to_ip, ip_to_dpid, dpid_to_conns, mac_to_position, dpid_to_id,
    mac_to_flows, dpid_to_vmac, gateway, gateway_port, switch_count,
    dpid_to_topid,
    zk,          \* the durable store: znode path -> data
    dps,         \* dpset: the datapaths connected to this controller process
    replay,      \* _do_failover: the log entries still to be replayed
    out,         \* what the last handler did: flow-mods, RPCs, commits, raise
    sent,        \* every unicast flow-mod sent so far
    ev,          \* the event the last handler was called with
    lastObs,     \* host -> (switch, port) of its most recent packet-in
    handed,      \* switch -> host ordinals given to the codec, in order
    waiting,     \* the packet-in handler blocked in its call of the peer, if any
    nEvents

vars == << dpid_to_ip, ip_to_dpid, dpid_to_conns, mac_to_position, dpid_to_id,
           mac_to_flows, dpid_to_vmac, gateway, gateway_port, switch_count,
           dpid_to_topid, zk, dps, replay, out, sent, ev, lastObs, handed,
           waiting, nEvents >>

NoEvent == [type |-> "none", dpid |-> "-", port |-> "-", mac |-> "-",
            via |-> "-", kind |-> "-", n |-> 0, had |-> FALSE,
            again |-> FALSE, logged |-> FALSE, old |-> <<>>, ports |-> <<>>,
            failover |-> FALSE]

\* ------------------------------------------------ handler-local state
\* The handlers are written as operators over a record holding the fields
\* of the Inception object, the store, and the locals of the running
\* handler (txn, non_mesh_ports, peer_ip, the return value of the last
\* call, the exception raised).
Fields ==
    [ dpid_to_ip |-> dpid_to_ip, ip_to_dpid |-> ip_to_dpid,
      dpid_to_conns |-> dpid_to_conns, mac_to_position |-> mac_to_position,
      dpid_to_id |-> dpid_to_id, mac_to_flows |-> mac_to_flows,
      dpid_to_vmac |-> dpid_to_vmac, gateway |-> gateway,
      gateway_port |-> gateway_port, switch_count |-> switch_count,
      dpid_to_topid |-> dpid_to_topid, zk |-> zk, dps |-> dps,
      sent |-> sent, handed |-> handed,
      out |-> <<>>, txn |-> <<>>, non_mesh_ports |-> <<>>,
      peer_ip |-> "unbound", ret |-> FALSE, exc |-> "none" ]

Raise(st, e) == [st EXCEPT !.exc = e, !.out = Append(@, [t |-> "raise", e |-> e])]
Emit(st, x) == [st EXCEPT !.out = Append(@, x)]

FlowMod(dpid, cmd, match, priority, actions) ==
    [t |-> "flowmod", dpid |-> dpid, cmd |-> cmd, match |-> match,
     priority |-> priority, actions |-> actions]

\* datapath.send_msg(OFPFlowMod(...)) of a unicast rule
SendUnicast(st, fm) ==
    [st EXCEPT !.out = Append(@, fm),
               !.sent = Append(@, [dpid |-> fm.dpid, key |-> <<fm.match[2], fm.match[3]>>,
                                   cmd |-> fm.cmd])]

TxnBegin(st) == [st EXCEPT !.txn = <<>>]
TxnAdd(st, op, path, data) ==
    [st EXCEPT !.txn = Append(@, [op |-> op, path |-> path, data |-> data])]
TxnCommit(st) ==
    LET r == TxnResult(st.zk, st.txn)
    IN  [st EXCEPT !.zk = IF r.ok THEN r.zk ELSE @, !.txn = <<>>,
                   !.out = Append(@, [t |-> "commit", ok |-> r.ok])]

\* a create that writes over a znode that exists
ZkCreateOverwrite(st, path, data) ==
    IF ~ParentExists(st.zk, path) THEN Raise(st, "NoNodeError")
    ELSE [st EXCEPT !.zk = Put(@, path, data)]

\* self.zk.create(path, data) outside a transaction
ZkCreate(st, path, data) ==
    IF path \in DOMAIN st.zk THEN Raise(st, "NodeExistsError")
    ELSE IF ~ParentExists(st.zk, path) THEN Raise(st, "NoNodeError")
    ELSE [st EXCEPT !.zk = Put(@, path, data)]

\* ------------------------------------------------------- flow set-up
set_local_flow(st, dpid, vmac, mac, port) ==
    IF dpid \notin st.dps THEN Raise(st, "AttributeError")
    ELSE SendUnicast(st, FlowMod(dpid, "ADD", <<"eth_dst", vmac, "exact">>, "DATA_FWD",
                                 << <<"set_eth_dst", mac>>, <<"output", port>> >>))

set_nonlocal_flow(st, dpid, mac, mask, port, flow_add) ==
    LET mac_record == IF mask = DCENTER_MASK THEN get_dc_prefix(mac)
                      ELSE get_swc_prefix(mac)
        \* mac_to_flows is a defaultdict: looking mac_record up creates it
        looked == IF mac_record \in DOMAIN st.mac_to_flows THEN st
                  ELSE [st EXCEPT !.mac_to_flows = Put(@, mac_record, {})]
    IN  IF dpid \in looked.mac_to_flows[mac_record] THEN looked
        ELSE IF dpid \notin looked.dps THEN Raise(looked, "AttributeError")
        ELSE
          LET s1 == SendUnicast(looked,
                       FlowMod(dpid, IF flow_add THEN "ADD" ELSE "MODIFY_STRICT",
                               <<"eth_dst", mac, mask>>, "DATA_FWD",
                               << <<"output", port>> >>))
              s2 == IF mac_record \notin DOMAIN s1.mac_to_flows
                    THEN TxnAdd(s1, "create", Path(MAC_TO_FLOWS, mac_record), "")
                    ELSE s1
              s3 == [s2 EXCEPT !.mac_to_flows[mac_record] = @ \cup {dpid}]
          IN  TxnAdd(s3, "create", ChildPath(MAC_TO_FLOWS, mac_record, dpid), "")

\* --------------------------------------------------- location directory
\* update_position without the assignment to self.mac_to_position
update_position_uncached(st, mac, dcenter, dpid, port, vmac) ==
    IF mac \in DOMAIN st.mac_to_position
    THEN TxnAdd(st, "set_data", Path(MAC_TO_POSITION, mac), <<dcenter, dpid, port, vmac>>)
    ELSE TxnAdd(st, "create", Path(MAC_TO_POSITION, mac), <<dcenter, dpid, port, vmac>>)

update_position(st, mac, dcenter, dpid, port, vmac) ==
    LET zk_data == <<dcenter, dpid, port, vmac>>
        zk_path == Path(MAC_TO_POSITION, mac)
        s1 == IF mac \in DOMAIN st.mac_to_position
              THEN TxnAdd(st, "set_data", zk_path, zk_data)
              ELSE TxnAdd(st, "create", zk_path, zk_data)
    IN  [s1 EXCEPT !.mac_to_position = Put(@, mac, <<dcenter, dpid, port, vmac>>)]

\* A call self.update_position(*args): the method takes
\* (mac, dcenter, dpid, port, vmac, txn); any other number of arguments is
\* a TypeError raised before the body runs.
CallUpdatePosition(st, args) ==
    IF Len(args) # 6 THEN Raise(st, "TypeError")
    ELSE update_position(st, args[1], args[2], args[3], args[4], args[5])

NoMigration(dpid_old, port_old, dpid_new, port_new) ==
    <<dpid_old, port_old>> = <<dpid_new, port_new>>

\* Sets st.ret to the return value.  The call of update_position at the
\* head of the migration branch passes (mac, dcenter, dpid_new, port_new, txn),
\* so the branch ends there and the two-step update below it never runs.
handle_migration(st, mac, dpid_old, port_old, dpid_new, port_new) ==
    IF NoMigration(dpid_old, port_old, dpid_new, port_new)
    THEN [st EXCEPT !.ret = FALSE]
    ELSE LET s1 == CallUpdatePosition(st, <<mac, Dcenter, dpid_new, port_new, "txn">>)
         IN  IF s1.exc # "none" THEN s1 ELSE [s1 EXCEPT !.ret = TRUE]

\* self.rpc_client.<method>(*args): an XML-RPC call that returns or raises
RpcCall(st, method, args, rpc_ok) ==
    LET s1 == Emit(st, [t |-> "rpc", method |-> method, args |-> args, ok |-> rpc_ok])
    IN  IF rpc_ok THEN s1 ELSE Raise(s1, "socket.error")

\* _do_source_learning without the look-up of the host in the directory
UnseenAlways(st, ethernet_src) == TRUE

Unseen(st, ethernet_src) == ethernet_src \notin DOMAIN st.mac_to_position

_do_source_learning(st, dpid, in_port, ethernet_src, rpc_ok) ==
    IF Unseen(st, ethernet_src)
    THEN IF dpid \notin DOMAIN st.dpid_to_topid \/ dpid \notin DOMAIN st.dpid_to_vmac
         THEN Raise(st, "KeyError")
         ELSE
           LET vm_id == generate_vm_id(st.dpid_to_topid[dpid])
               switch_vmac == st.dpid_to_vmac[dpid]
               vmac == create_vm_vmac(switch_vmac, vm_id)
               s0 == [st EXCEPT !.handed[dpid] = Append(@, st.dpid_to_topid[dpid])]
               s1 == CallUpdatePosition(s0, <<ethernet_src, Dcenter, dpid, in_port, vmac, "txn">>)
               s2 == RpcCall(s1, "update_position", <<ethernet_src, Dcenter, vmac>>, rpc_ok)
           IN  IF s1.exc # "none" THEN s1
               ELSE IF s2.exc # "none" THEN s2
               ELSE set_local_flow(s2, dpid, vmac, ethernet_src, in_port)
    ELSE
      LET rec == st.mac_to_position[ethernet_src]
          dpid_record == rec[2]
          port_record == rec[3]
          s1 == handle_migration(st, ethernet_src, dpid_record, port_record, dpid, in_port)
      IN  IF s1.exc # "none" \/ ~s1.ret THEN s1
          ELSE IF <<dpid_record, port_record>> = <<s1.gateway, s1.gateway_port>>
          THEN LET s2 == RpcCall(s1, "update_migration_flow", <<ethernet_src, Dcenter>>, rpc_ok)
               IN  IF s2.exc # "none" THEN s2
                   ELSE RpcCall(s2, "update_gateway_flow", <<ethernet_src, Dcenter>>, rpc_ok)
          ELSE s1

\* data is a frame that is neither ARP nor DHCP
_process_packet_in(st, dpid, in_port, data, rpc_ok) ==
    _do_source_learning(st, dpid, in_port, data, rpc_ok)

\* the body of packet_in_handler, and of one round of the loop of
\* _do_failover, from txn = self.zk.transaction() to txn.commit()
ProcessAndCommit(st, dpid, in_port, data, rpc_ok) ==
    LET log_path == ChildPath(ZK_FAILOVER, dpid, in_port)
        s1 == _process_packet_in(TxnBegin(st), dpid, in_port, data, rpc_ok)
    IN  IF s1.exc # "none" THEN s1
        ELSE TxnCommit(TxnAdd(s1, "delete", log_path, ""))

\* ------------------------------------------------------ switch connect
\* one round of the loop over event.ports that, for a mesh port whose peer
\* is known, also installs on the peer the rule toward the entering switch
HandlePortMutual(st, dpid, port) ==
    LET port_no == port.port_no
        conns(s, ip) ==
            [s EXCEPT !.dpid_to_conns =
                Put(@, dpid, Put(IF dpid \in DOMAIN @ THEN @[dpid] ELSE Empty, ip, port_no))]
    IN
    CASE port.kind = "obr" ->
           LET peer_ip == port.peer_ip
               s1 == [conns(st, peer_ip) EXCEPT !.peer_ip = peer_ip]
           IN  IF peer_ip \notin DOMAIN s1.ip_to_dpid THEN s1
               ELSE LET peer_dpid == s1.ip_to_dpid[peer_ip]
                    IN  IF peer_dpid \notin DOMAIN s1.dpid_to_vmac THEN Raise(s1, "KeyError")
                        ELSE LET peer_vmac == s1.dpid_to_vmac[peer_dpid]
                                 s2 == set_nonlocal_flow(TxnBegin(s1), dpid, peer_vmac,
                                                         SWITCH_MASK, port_no, TRUE)
                                 s3 == IF s2.exc # "none" THEN s2
                                       ELSE set_nonlocal_flow(s2, peer_dpid, s2.dpid_to_vmac[dpid],
                                                              SWITCH_MASK, port_no, TRUE)
                             IN  IF s3.exc # "none" THEN s3 ELSE TxnCommit(s3)
      [] port.kind = "dhcp" -> st
      [] port.kind = "gate" ->
           LET remote_ip == port.peer_ip
               peer_dc_vmac == create_dc_vmac(port.dcenter)
               s1 == conns([st EXCEPT !.gateway = dpid, !.gateway_port = port_no], remote_ip)
           IN  IF s1.peer_ip = "unbound" THEN Raise(s1, "UnboundLocalError")
               ELSE LET s2 == [s1 EXCEPT !.non_mesh_ports = Append(@, port_no)]
                        s3 == set_nonlocal_flow(TxnBegin(s2), dpid, peer_dc_vmac,
                                                DCENTER_MASK, port_no, TRUE)
                    IN  IF s3.exc # "none" THEN s3 ELSE TxnCommit(s3)
      [] OTHER -> [st EXCEPT !.non_mesh_ports = Append(@, port_no)]

\* one round of the loop over event.ports
HandlePort(st, dpid, port) ==
    LET port_no == port.port_no
        conns(s, ip) ==
            [s EXCEPT !.dpid_to_conns =
                Put(@, dpid, Put(IF dpid \in DOMAIN @ THEN @[dpid] ELSE Empty, ip, port_no))]
    IN
    CASE port.kind = "obr" ->
           LET peer_ip == port.peer_ip
               s1 == [conns(st, peer_ip) EXCEPT !.peer_ip = peer_ip]
           IN  IF peer_ip \notin DOMAIN s1.ip_to_dpid THEN s1
               ELSE LET peer_dpid == s1.ip_to_dpid[peer_ip]
                    IN  IF peer_dpid \notin DOMAIN s1.dpid_to_vmac THEN Raise(s1, "KeyError")
                        ELSE LET peer_vmac == s1.dpid_to_vmac[peer_dpid]
                                 s2 == set_nonlocal_flow(TxnBegin(s1), dpid, peer_vmac,
                                                         SWITCH_MASK, port_no, TRUE)
                             IN  IF s2.exc # "none" THEN s2 ELSE TxnCommit(s2)
      [] port.kind = "dhcp" -> st       \* inception_dhcp.update_server
      [] port.kind = "gate" ->
           LET remote_ip == port.peer_ip
               peer_dc_vmac == create_dc_vmac(port.dcenter)
               s1 == conns([st EXCEPT !.gateway = dpid, !.gateway_port = port_no], remote_ip)
           IN  \* the log line names peer_ip, a local of the 'obr' branch
               IF s1.peer_ip = "unbound" THEN Raise(s1, "UnboundLocalError")
               ELSE LET s2 == [s1 EXCEPT !.non_mesh_ports = Append(@, port_no)]
                        s3 == set_nonlocal_flow(TxnBegin(s2), dpid, peer_dc_vmac,
                                                DCENTER_MASK, port_no, TRUE)
                    IN  IF s3.exc # "none" THEN s3 ELSE TxnCommit(s3)
      [] OTHER -> [st EXCEPT !.non_mesh_ports = Append(@, port_no)]

RECURSIVE PortLoop(_, _, _, _)
PortLoop(st, dpid, ports, i) ==
    IF st.exc # "none" \/ i > Len(ports) THEN st
    ELSE PortLoop(HandlePort(st, dpid, ports[i]), dpid, ports, i + 1)

RECURSIVE BcastOut(_, _, _, _)
BcastOut(st, dpid, nm, i) ==
    IF i > Len(nm) THEN st
    ELSE BcastOut(Emit(st, FlowMod(dpid, "ADD", <<"in_port+bcast", nm[i]>>, "HOST_BCAST",
                                   << <<"output", "ALL">> >>)),
                  dpid, nm, i + 1)

\* the ARP, DHCP, broadcast and default rules sent to a connecting switch
BaselineFlows(st, dpid) ==
    LET nm == st.non_mesh_ports
        s1 == Emit(st, FlowMod(dpid, "ADD", <<"arp">>, "ARP", << <<"output", "CONTROLLER">> >>))
        s2 == Emit(s1, FlowMod(dpid, "ADD", <<"udp_src", "DHCP_CLIENT_PORT">>, "DHCP",
                               << <<"output", "CONTROLLER">> >>))
        s3 == Emit(s2, FlowMod(dpid, "ADD", <<"udp_src", "DHCP_SERVER_PORT">>, "DHCP",
                               << <<"output", "CONTROLLER">> >>))
        s4 == BcastOut(s3, dpid, nm, 1)
        s5 == Emit(s4, FlowMod(dpid, "ADD", <<"bcast">>, "SWITCH_BCAST",
                               [i \in 1..Len(nm) |-> <<"output", nm[i]>>]))
    IN  Emit(s5, FlowMod(dpid, "ADD", <<"any">>, "NORMAL", <<>>))

\* switch_connection_handler, event.enter, up to the call of _do_failover
ConnectBody(st0, dpid, ports) ==
    LET st == [st0 EXCEPT !.switch_count = @ + 1]
        ip == IpOf(dpid)
        s1 == IF dpid \notin DOMAIN st.dpid_to_id
              THEN LET c == ZkCreate(st, Path(DPID_TO_ID, dpid), "")
                   IN  IF c.exc # "none" THEN c
                       ELSE [c EXCEPT !.dpid_to_topid = Put(@, dpid, 1)]
              ELSE st
        s2 == IF dpid \notin DOMAIN s1.dpid_to_vmac
              THEN LET switch_vmac == create_swc_vmac(Dcenter, s1.switch_count)
                   IN  ZkCreate([s1 EXCEPT !.dpid_to_vmac = Put(@, dpid, switch_vmac)],
                                Path(DPID_TO_VMAC, dpid), switch_vmac)
              ELSE s1
        s3 == [s2 EXCEPT !.dpid_to_ip = Put(@, dpid, ip), !.ip_to_dpid = Put(@, ip, dpid)]
        s4 == PortLoop(s3, dpid, ports, 1)
    IN  IF s1.exc # "none" THEN s1
        ELSE IF s2.exc # "none" THEN s2
        ELSE IF s4.exc # "none" THEN s4
        ELSE BaselineFlows(s4, dpid)

\* --------------------------------------------------- switch disconnect
\* switch_connection_handler, not event.enter.  The log line after the two
\* deletions reads self.dpid_to_ip[dpid], which has just been deleted.
DisconnectBody(st, dpid) ==
    IF dpid \notin DOMAIN st.dpid_to_ip THEN Raise(st, "KeyError")
    ELSE LET ip == st.dpid_to_ip[dpid]
         IN  IF ip \notin DOMAIN st.ip_to_dpid THEN Raise(st, "KeyError")
             ELSE Raise([st EXCEPT !.ip_to_dpid = Del(@, ip), !.dpid_to_ip = Del(@, dpid)],
                        "KeyError")

\* ------------------------------------------------------------ failover
\* self.zk.get_children(CONF.zk_failover)
FailoverNodes(z) == { <<q[2], q[3]>> : q \in { r \in DOMAIN z : r[1] = ZK_FAILOVER } }

Orders(S) == { q \in [1..Cardinality(S) -> S] : \A i, j \in 1..Cardinality(S) : i # j => q[i] # q[j] }

\* the FlowRecord entries toward a host: self.mac_to_flows[mac]
MacKey(mac) == <<mac>>
FlowsToward(mtf, mac) == IF MacKey(mac) \in DOMAIN mtf THEN mtf[MacKey(mac)] ELSE {}

\* ------------------------------------------------------------- actions
\* Inception.__init__
InitMemory ==
    /\ dpid_to_ip = Empty
    /\ ip_to_dpid = Empty
    /\ dpid_to_conns = Empty
    /\ mac_to_position = Empty
    /\ dpid_to_id = Empty
    /\ mac_to_flows = Empty
    /\ dpid_to_vmac = Empty
    /\ gateway = "None"
    /\ gateway_port = "None"
    /\ switch_count = 0
    /\ dpid_to_topid = Empty

Init ==
    /\ InitMemory
    /\ \E logs \in InitLogs :
         zk = [q \in { ChildPath(ZK_FAILOVER, e[1], e[2]) : e \in logs } |->
                 (CHOOSE e \in logs : ChildPath(ZK_FAILOVER, e[1], e[2]) = q)[3]]
    /\ dps = {}
    /\ replay = <<>>
    /\ out = <<>>
    /\ sent = <<>>
    /\ ev = NoEvent
    /\ lastObs = Empty
    /\ handed = [d \in Dpids |-> <<>>]
    /\ waiting = <<>>
    /\ nEvents = 0

\* the fields of the object and the store after a handler ended in state r
Store(r) ==
    /\ dpid_to_ip' = r.dpid_to_ip
    /\ ip_to_dpid' = r.ip_to_dpid
    /\ dpid_to_conns' = r.dpid_to_conns
    /\ mac_to_position' = r.mac_to_position
    /\ dpid_to_id' = r.dpid_to_id
    /\ mac_to_flows' = r.mac_to_flows
    /\ dpid_to_vmac' = r.dpid_to_vmac
    /\ gateway' = r.gateway
    /\ gateway_port' = r.gateway_port
    /\ switch_count' = r.switch_count
    /\ dpid_to_topid' = r.dpid_to_topid
    /\ zk' = r.zk
    /\ out' = r.out
    /\ sent' = r.sent
    /\ handed' = r.handed

\* the test of the counter taken for one that also lets later connects in
FailoverDueFrom(st) == st.exc = "none" /\ st.switch_count >= NumSwitches

\* the handler got to its last statement and the counter of connect events
\* stands at CONF.num_switches: _do_failover is called
FailoverDue(st) == st.exc = "none" /\ st.switch_count = NumSwitches

\* a switch enters: DPSet registers the datapath, then the handler runs
SwitchConnect(dpid, ports) ==
    /\ waiting = <<>> /\ UNCHANGED waiting
    /\ replay = <<>>
    /\ nEvents < MaxEvents
    /\ LET r == ConnectBody([Fields EXCEPT !.dps = @ \cup {dpid}], dpid, ports)
           nodes == FailoverNodes(r.zk)
       IN  /\ Store(r)
           /\ IF FailoverDue(r) /\ nodes # {}
              THEN \E order \in Orders(nodes) : replay' = order
              ELSE replay' = <<>>
           /\ ev' = [NoEvent EXCEPT !.type = "connect", !.dpid = dpid, !.ports = ports,
                                    !.failover = FailoverDue(r)]
    /\ dps' = dps \cup {dpid}
    /\ nEvents' = nEvents + 1
    /\ UNCHANGED lastObs

\* a switch leaves
SwitchDisconnect(dpid) ==
    /\ waiting = <<>> /\ UNCHANGED waiting
    /\ replay = <<>>
    /\ nEvents < MaxEvents
    /\ dpid \in dps
    /\ Store(DisconnectBody(Fields, dpid))
    /\ dps' = dps \ {dpid}
    /\ replay' = <<>>
    /\ ev' = [NoEvent EXCEPT !.type = "disconnect", !.dpid = dpid]
    /\ lastObs' = [m \in { h \in DOMAIN lastObs : lastObs[h][1] # dpid } |-> lastObs[m]]
    /\ nEvents' = nEvents + 1

\* what the caches say about a packet-in before it is processed
Observation(dpid, in_port, mac, via) ==
    [ type |-> "packet_in", dpid |-> dpid, port |-> in_port, mac |-> mac, via |-> via,
      kind |-> IF mac \notin DOMAIN mac_to_position THEN "first"
               ELSE IF <<mac_to_position[mac][2], mac_to_position[mac][3]>> = <<dpid, in_port>>
               THEN "unchanged"
               ELSE IF mac_to_position[mac][2] = dpid THEN "moved_port"
               ELSE "moved_switch",
      n |-> Cardinality(FlowsToward(mac_to_flows, mac) \ {dpid}),
      had |-> dpid \in FlowsToward(mac_to_flows, mac),
      again |-> ev.type = "packet_in" /\ <<ev.dpid, ev.port, ev.mac>> = <<dpid, in_port, mac>>,
      logged |-> ChildPath(ZK_FAILOVER, dpid, in_port) \in DOMAIN zk,
      old |-> IF mac \in DOMAIN mac_to_position THEN mac_to_position[mac] ELSE <<>>,
      ports |-> <<>>, failover |-> FALSE ]

Observed(r, dpid, in_port, mac) ==
    lastObs' = IF mac \in DOMAIN r.mac_to_position
               THEN Put(lastObs, mac, <<dpid, in_port>>)
               ELSE lastObs

\* packet_in_handler
PacketIn(dpid, in_port, mac, rpc_ok) ==
    /\ waiting = <<>> /\ UNCHANGED waiting
    /\ replay = <<>>
    /\ nEvents < MaxEvents
    /\ dpid \in dps
    /\ LET r == ProcessAndCommit(Fields, dpid, in_port, mac, rpc_ok)
       IN  Store(r) /\ Observed(r, dpid, in_port, mac)
    /\ ev' = Observation(dpid, in_port, mac, "live")
    /\ nEvents' = nEvents + 1
    /\ UNCHANGED << dps, replay >>

\* one round of the loop of _do_failover
ReplayStep(rpc_ok) ==
    /\ waiting = <<>> /\ UNCHANGED waiting
    /\ replay # <<>>
    /\ LET dpid == Head(replay)[1]
           in_port == Head(replay)[2]
           log_path == ChildPath(ZK_FAILOVER, dpid, in_port)
           data == zk[log_path]
           r == ProcessAndCommit(Fields, dpid, in_port, data, rpc_ok)
       IN  /\ Store(r)
           /\ Observed(r, dpid, in_port, data)
           /\ ev' = Observation(dpid, in_port, data, "failover")
           /\ replay' = IF r.exc # "none" THEN <<>> ELSE Tail(replay)
    /\ UNCHANGED << dps, nEvents >>

\* the controller process ends and a new one is constructed on the same
\* store; the switches have to connect again
Restart ==
    /\ waiting = <<>> /\ UNCHANGED waiting
    /\ nEvents < MaxEvents
    /\ dpid_to_ip' = Empty
    /\ ip_to_dpid' = Empty
    /\ dpid_to_conns' = Empty
    /\ mac_to_position' = Empty
    /\ dpid_to_id' = Empty
    /\ mac_to_flows' = Empty
    /\ dpid_to_vmac' = Empty
    /\ gateway' = "None"
    /\ gateway_port' = "None"
    /\ switch_count' = 0
    /\ dpid_to_topid' = Empty
    /\ dps' = {}
    /\ replay' = <<>>
    /\ out' = <<>>
    /\ ev' = [NoEvent EXCEPT !.type = "restart"]
    /\ lastObs' = Empty
    /\ handed' = [d \in Dpids |-> <<>>]
    /\ nEvents' = nEvents + 1
    /\ UNCHANGED << zk, sent >>

Next ==
    \/ \E d \in Dpids : \E ports \in PortLayouts(d) : SwitchConnect(d, ports)
    \/ \E d \in Dpids : SwitchDisconnect(d)
    \/ \E d \in Dpids : \E p \in InPorts(d) : \E m \in Macs : \E ok \in BOOLEAN :
          PacketIn(d, p, m, ok)
    \/ \E ok \in BOOLEAN : ReplayStep(ok)
    \/ Restart

Spec == Init /\ [][Next]_vars

\* ------------------------------------------- the RPC server green thread
\* __init__ spawns rpc_server.serve_forever in a green thread of its own,
\* on the same Inception object.  Green threads switch where one of them
\* blocks: the handlers of the application run one at a time, but the call
\* self.rpc_client.update_position(...) blocks on the peer, and a call of
\* the peer to this controller can be served meanwhile.

\* a locator of a host of the neighbour datacenter
RemoteVmac(mac) == <<NeighborDcenter, 1, IF mac = "h1" THEN 1 ELSE 2>>

\* InceptionRpc.update_position(mac, dcenter, vmac), called by the peer:
\* the host is recorded behind the gateway port, as a local observation of
\* it would be, by a transaction of its own
InboundUpdatePosition(st, mac, dcenter, vmac) ==
    TxnCommit(update_position(TxnBegin(st), mac, dcenter, st.gateway, st.gateway_port, vmac))

\* _do_source_learning of an unseen host, up to the call of the peer
LearnUntilCall(st, dpid, in_port, ethernet_src) ==
    LET vm_id == generate_vm_id(st.dpid_to_topid[dpid])
        vmac == create_vm_vmac(st.dpid_to_vmac[dpid], vm_id)
        s0 == [st EXCEPT !.handed[dpid] = Append(@, st.dpid_to_topid[dpid])]
    IN  CallUpdatePosition(s0, <<ethernet_src, Dcenter, dpid, in_port, vmac, "txn">>)

\* the rest of the handler, from the return of the call of the peer to
\* txn.commit(): the fields of the object are what they are by then, the
\* locals (txn, vmac) are the handler's own
LearnAfterCall(st, dpid, in_port, ethernet_src, vmac, rpc_ok) ==
    LET s2 == RpcCall(st, "update_position", <<ethernet_src, Dcenter, vmac>>, rpc_ok)
        s3 == IF s2.exc # "none" THEN s2
              ELSE set_local_flow(s2, dpid, vmac, ethernet_src, in_port)
    IN  IF s3.exc # "none" THEN s3
        ELSE TxnCommit(TxnAdd(s3, "delete", ChildPath(ZK_FAILOVER, dpid, in_port), ""))

\* packet_in_handler of a first sighting, until it blocks in the call
PacketInBegin(dpid, in_port, mac) ==
    /\ waiting = <<>>
    /\ replay = <<>>
    /\ nEvents < MaxEvents
    /\ dpid \in dps
    /\ Unseen(Fields, mac)
    /\ dpid \in DOMAIN dpid_to_topid /\ dpid \in DOMAIN dpid_to_vmac
    /\ LET r == LearnUntilCall(TxnBegin(Fields), dpid, in_port, mac)
       IN  /\ Store(r)
           /\ waiting' = << [dpid |-> dpid, port |-> in_port, mac |-> mac,
                             vmac |-> r.mac_to_position[mac][4], txn |-> r.txn] >>
    /\ ev' = Observation(dpid, in_port, mac, "live")
    /\ nEvents' = nEvents + 1
    /\ UNCHANGED << dps, replay, lastObs >>

\* the call of the peer returns or raises and the handler runs to its end
PacketInResume(rpc_ok) ==
    /\ waiting # <<>>
    /\ LET w == waiting[1]
           r == LearnAfterCall([Fields EXCEPT !.txn = w.txn], w.dpid, w.port, w.mac,
                               w.vmac, rpc_ok)
       IN  /\ Store(r)
           /\ Observed(r, w.dpid, w.port, w.mac)
           /\ ev' = [ev EXCEPT !.type = "packet_in", !.dpid = w.dpid, !.port = w.port,
                               !.mac = w.mac, !.via = "live"]
    /\ waiting' = <<>>
    /\ UNCHANGED << dps, replay, nEvents >>

\* the RPC server thread serves a call of the peer
RpcServe(mac) ==
    /\ replay = <<>>
    /\ nEvents < MaxEvents
    /\ Store(InboundUpdatePosition(Fields, mac, NeighborDcenter, RemoteVmac(mac)))
    /\ ev' = [NoEvent EXCEPT !.type = "rpc_in", !.mac = mac]
    /\ nEvents' = nEvents + 1
    /\ UNCHANGED << dps, replay, lastObs, waiting >>

NextHub ==
    \/ Next
    \/ \E d \in Dpids : \E p \in InPorts(d) : \E m \in Macs : PacketInBegin(d, p, m)
    \/ \E ok \in BOOLEAN : PacketInResume(ok)
    \/ \E m \in Macs : RpcServe(m)

SpecHub == Init /\ [][NextHub]_vars

\* ------------------------------------------------------------ properties
IsFlowMod(x) == x.t = "flowmod"
IsUnicast(x) == x.t = "flowmod" /\ x.priority = "DATA_FWD"
IsRpc(x) == x.t = "rpc"
FlowMods(o) == { i \in 1..Len(o) : IsFlowMod(o[i]) }
Rpcs(o) == { i \in 1..Len(o) : IsRpc(o[i]) }

\* the persisted Location directory and FlowRecord
Persisted(z) == [q \in { r \in DOMAIN z : r[1] \in {MAC_TO_POSITION, MAC_TO_FLOWS} } |-> z[q]]
PersistedVmac(z) == { q \in DOMAIN z : q[1] = DPID_TO_VMAC }

\* C1 - directory totality: every host learned by this controller whose
\* switch has not disconnected has a Location, a (datacenter, switch, port,
\* locator) tuple naming the switch and port of its most recent packet-in.
C1_DirectoryTotality ==
    \A m \in DOMAIN lastObs :
        /\ m \in DOMAIN mac_to_position
        /\ Len(mac_to_position[m]) = 4
        /\ mac_to_position[m][2] = lastObs[m][1]
        /\ mac_to_position[m][3] = lastObs[m][2]

\* C2 - switch-prefix uniqueness: no two distinct switches hold the same
\* locatorPrefix, neither in dpid_to_vmac in memory nor under dpid_to_vmac
\* in the store.
C2_SwitchPrefixUnique ==
    /\ \A d1, d2 \in DOMAIN dpid_to_vmac :
          d1 # d2 => dpid_to_vmac[d1] # dpid_to_vmac[d2]
    /\ \A q1, q2 \in PersistedVmac(zk) : q1 # q2 => zk[q1] # zk[q2]

\* C3 - host-locator uniqueness: no two distinct hosts located on the same
\* switch hold the same locator, and the host ordinals handed to the codec
\* for a switch are strictly increasing.
C3_HostLocatorUnique ==
    /\ \A m1, m2 \in DOMAIN mac_to_position :
          (m1 # m2 /\ mac_to_position[m1][2] = mac_to_position[m2][2])
             => mac_to_position[m1][4] # mac_to_position[m2][4]
    /\ \A d \in Dpids : \A i, j \in 1..Len(handed[d]) :
          i < j => handed[d][i] < handed[d][j]

\* C4 - migration two-step convergence: a packet-in from a known host on a
\* switch B other than the one it is located on ends with exactly N+1
\* flow-mods, N the number of other switches with a FlowRecord entry toward
\* the host: one at B (ADD if B had no entry, MODIFY otherwise), a MODIFY at
\* each other switch; afterwards the Location names B.
C4_MigrationTwoStep ==
    (ev.type = "packet_in" /\ ev.kind = "moved_switch") =>
        /\ Cardinality(FlowMods(out)) = ev.n + 1
        /\ Cardinality({ i \in FlowMods(out) : out[i].dpid = ev.dpid }) = 1
        /\ \A i \in FlowMods(out) :
              out[i].cmd = IF out[i].dpid = ev.dpid /\ ~ev.had THEN "ADD" ELSE "MODIFY_STRICT"
        /\ ev.mac \in DOMAIN mac_to_position
        /\ mac_to_position[ev.mac][2] = ev.dpid

\* C5 - idempotent replay: processing a packet-in right after the same
\* packet-in (switch, port, payload) has been processed changes neither the
\* Location directory nor the FlowRecord, in memory or in the store, and
\* sends no flow-mod and no peer notification.
C5_IdempotentReplay ==
    [][ ev'.again =>
          /\ mac_to_position' = mac_to_position
          /\ mac_to_flows' = mac_to_flows
          /\ Persisted(zk') = Persisted(zk)
          /\ FlowMods(out') = {}
          /\ Rpcs(out') = {} ]_vars

\* a host has been learned, its rule installed, and the same packet-in has
\* then been processed a second time
C5_Witness ==
    /\ ev.again
    /\ ev.mac \in DOMAIN mac_to_position
    /\ \E i \in 1..Len(sent) :
          sent[i] = [dpid |-> ev.dpid, key |-> <<mac_to_position[ev.mac][4], "exact">>,
                     cmd |-> "ADD"]

\* C6 - an unchanged observation is a no-op: a packet-in from a host whose
\* recorded (switch, port) is the observed one leaves mac_to_position,
\* mac_to_flows, dpid_to_vmac, dpid_to_topid and the persisted directory and
\* flow records as they are and sends no flow-mod and no peer RPC.
C6_UnchangedNoOp ==
    [][ (ev'.type = "packet_in" /\ ev'.kind = "unchanged") =>
          /\ UNCHANGED << mac_to_position, mac_to_flows, dpid_to_vmac, dpid_to_topid >>
          /\ Persisted(zk') = Persisted(zk)
          /\ FlowMods(out') = {}
          /\ Rpcs(out') = {} ]_vars

\* a live packet-in from a host at its recorded switch and port has been handled
C6_Witness ==
    /\ ev.type = "packet_in" /\ ev.kind = "unchanged" /\ ev.via = "live"
    /\ mac_to_position[ev.mac][2] = ev.dpid
    /\ mac_to_position[ev.mac][3] = ev.port

\* C7 - first sighting: a packet-in on a connected switch S, port p, from a
\* host not in the directory leaves the Location (local datacenter, S, p,
\* locator), the locator built from the prefix of S and an ordinal not
\* handed out before, exactly one flow-mod - ADD on S, match locator,
\* rewrite to the host address, output p - and exactly one peer
\* notification carrying the host, the datacenter and the locator (the peer
\* answering the call).
C7_FirstSighting ==
    (/\ ev.type = "packet_in" /\ ev.kind = "first" /\ ev.dpid \in DOMAIN dpid_to_ip
     /\ \A i \in Rpcs(out) : out[i].ok) =>
        /\ ev.mac \in DOMAIN mac_to_position
        /\ ev.dpid \in DOMAIN dpid_to_vmac
        /\ LET loc == mac_to_position[ev.mac][4]
               ords == handed[ev.dpid]
           IN  /\ mac_to_position[ev.mac] = <<Dcenter, ev.dpid, ev.port, loc>>
               /\ get_swc_prefix(loc) = dpid_to_vmac[ev.dpid]
               /\ ords # <<>>
               /\ loc = create_vm_vmac(dpid_to_vmac[ev.dpid], generate_vm_id(ords[Len(ords)]))
               /\ \A i \in 1..(Len(ords) - 1) : ords[i] # ords[Len(ords)]
               /\ Cardinality(FlowMods(out)) = 1
               /\ \A i \in FlowMods(out) :
                     out[i] = FlowMod(ev.dpid, "ADD", <<"eth_dst", loc, "exact">>, "DATA_FWD",
                                      << <<"set_eth_dst", ev.mac>>, <<"output", ev.port>> >>)
               /\ Cardinality(Rpcs(out)) = 1
               /\ \A i \in Rpcs(out) :
                     /\ out[i].method = "update_position"
                     /\ out[i].args = <<ev.mac, Dcenter, loc>>

\* C8 - no duplicate rule emission: no two ADDs of a unicast rule carry the
\* same (switch, match key), and every unicast rule a handler sends is in
\* the FlowRecord under its match address when the handler ends.
C8_NoDuplicateRule ==
    /\ \A i, j \in 1..Len(sent) :
          (i < j /\ sent[i].cmd = "ADD" /\ sent[j].cmd = "ADD")
             => ~(sent[i].dpid = sent[j].dpid /\ sent[i].key = sent[j].key)
    /\ \A i \in 1..Len(out) :
          IsUnicast(out[i]) =>
             /\ out[i].match[2] \in DOMAIN mac_to_flows
             /\ out[i].dpid \in mac_to_flows[out[i].match[2]]

\* C9 - rule installation follows commit: a unicast flow-mod is sent only
\* after a transaction of that event has been accepted, and none is sent
\* ahead of a transaction that is then rejected.
C9_FlowModAfterCommit ==
    \A i \in 1..Len(out) :
        IsUnicast(out[i]) =>
           /\ \E j \in 1..(i - 1) : out[j].t = "commit" /\ out[j].ok
           /\ \A j \in (i + 1)..Len(out) : out[j].t = "commit" => out[j].ok

\* C10 - failover-log lifecycle: when a live packet-in is handled its entry
\* (switch, port) is in the failover log before processing starts, is still
\* there if no transaction of the event was accepted, and is gone once the
\* transaction has been accepted.
C10_FailoverLogLifecycle ==
    (ev.type = "packet_in" /\ ev.via = "live") =>
        LET log_path == ChildPath(ZK_FAILOVER, ev.dpid, ev.port)
            committed == \E i \in 1..Len(out) : out[i].t = "commit" /\ out[i].ok
        IN  /\ ev.logged
            /\ committed <=> log_path \notin DOMAIN zk

Raised(o) == \E i \in 1..Len(o) : o[i].t = "raise"
Accepted(o) == { i \in 1..Len(o) : o[i].t = "commit" /\ o[i].ok }
Commits(o) == { i \in 1..Len(o) : o[i].t = "commit" }
PersistedPosition(z) == { q \in DOMAIN z : q[1] = MAC_TO_POSITION }

\* C11 - a duplicate connect is a no-op: a connect event for a switch that
\* already has a locatorPrefix and a host-ordinal counter ends without an
\* exception and leaves dpid_to_vmac, dpid_to_topid, switch_count, the
\* Location directory, the FlowRecord and the store as they are.
C11_DuplicateConnectNoOp ==
    [][ (/\ ev'.type = "connect"
         /\ ev'.dpid \in DOMAIN dpid_to_vmac
         /\ ev'.dpid \in DOMAIN dpid_to_topid) =>
          /\ ~Raised(out')
          /\ UNCHANGED << dpid_to_vmac, dpid_to_topid, switch_count,
                          mac_to_position, mac_to_flows, zk >> ]_vars

\* C12 - disconnect cleanup: after the disconnect of a switch D that has a
\* topology record, D is in none of dpid_to_ip, ip_to_dpid, dpid_to_conns,
\* no Location in memory or in the store names D, the Locations naming
\* other switches are untouched, no FlowRecord entry is scoped to D, and the
\* removals from the store were made by one transaction.
C12_DisconnectCleanup ==
    [][ (ev'.type = "disconnect" /\ ev'.dpid \in DOMAIN dpid_to_ip) =>
          LET D == ev'.dpid
          IN  /\ D \notin DOMAIN dpid_to_ip'
              /\ dpid_to_ip[D] \notin DOMAIN ip_to_dpid'
              /\ D \notin DOMAIN dpid_to_conns'
              /\ \A m \in DOMAIN mac_to_position' : mac_to_position'[m][2] # D
              /\ \A q \in PersistedPosition(zk') : zk'[q][2] # D
              /\ \A m \in DOMAIN mac_to_position :
                    mac_to_position[m][2] # D =>
                       (m \in DOMAIN mac_to_position' /\ mac_to_position'[m] = mac_to_position[m])
              /\ \A rec \in DOMAIN mac_to_flows' : D \notin mac_to_flows'[rec]
              /\ Cardinality(Commits(out')) = 1
              /\ Accepted(out') = Commits(out') ]_vars

PortsOfKind(ports, kind) == { ports[i].port_no : i \in { j \in 1..Len(ports) : ports[j].kind = kind } }
Outputs(actions) == { actions[i][2] : i \in { j \in 1..Len(actions) : actions[j][1] = "output" } }

\* C14 - mesh rule at connect: when the connect handler of switch X ends and
\* X reported a mesh port m toward the address of a switch Y known before,
\* exactly one rule was sent for Y's prefix - ADD to X, switch mask, output
\* m, unicast-data-forward priority - the FlowRecord holds (Y's prefix, X)
\* in memory, the transaction committed right after the rule was accepted
\* and the entry is in the store.
C14_MeshRuleAtConnect ==
    (ev.type = "connect" /\ ~Raised(out)) =>
        \A i \in 1..Len(ev.ports) :
            LET port == ev.ports[i]
                X == ev.dpid
            IN  (/\ port.kind = "obr"
                 /\ port.peer_ip \in DOMAIN ip_to_dpid
                 /\ ip_to_dpid[port.peer_ip] # X) =>
                   LET Y == ip_to_dpid[port.peer_ip]
                       pfx == dpid_to_vmac[Y]
                       rules == { k \in FlowMods(out) : out[k].match = <<"eth_dst", pfx, SWITCH_MASK>> }
                   IN  /\ Cardinality(rules) = 1
                       /\ \A k \in rules :
                             out[k] = FlowMod(X, "ADD", <<"eth_dst", pfx, SWITCH_MASK>>, "DATA_FWD",
                                              << <<"output", port.port_no>> >>)
                       /\ pfx \in DOMAIN mac_to_flows
                       /\ X \in mac_to_flows[pfx]
                       /\ \A k \in rules : (k + 1) \in Accepted(out)
                       /\ ChildPath(MAC_TO_FLOWS, pfx, X) \in DOMAIN zk

\* C15 - broadcast containment: when the connect handler of a switch ends,
\* it has sent one broadcast-in rule whose outputs are exactly the Local
\* ports (no mesh, gateway or DHCP port), and broadcast-out rules for
\* exactly the Local ports.
C15_BroadcastContainment ==
    (ev.type = "connect" /\ ~Raised(out)) =>
        LET local == PortsOfKind(ev.ports, "local")
            bin == { k \in FlowMods(out) : out[k].priority = "SWITCH_BCAST" }
            bout == { k \in FlowMods(out) : out[k].priority = "HOST_BCAST" }
        IN  /\ Cardinality(bin) = 1
            /\ \A k \in bin : Outputs(out[k].actions) = local
            /\ { out[k].match[2] : k \in bout } = local

\* C16 - mirror consistency: after every handler each Location, FlowRecord
\* entry and locatorPrefix held in memory has an identical persisted entry
\* and each persisted one is held in memory; and a handler whose
\* transaction was rejected has left the in-memory maps as they were.
C16_MirrorConsistency ==
    /\ \A m \in DOMAIN mac_to_position :
          /\ Path(MAC_TO_POSITION, m) \in DOMAIN zk
          /\ zk[Path(MAC_TO_POSITION, m)] = mac_to_position[m]
    /\ \A q \in PersistedPosition(zk) : q[2] \in DOMAIN mac_to_position
    /\ \A rec \in DOMAIN mac_to_flows : \A d \in mac_to_flows[rec] :
          ChildPath(MAC_TO_FLOWS, rec, d) \in DOMAIN zk
    /\ \A q \in DOMAIN zk :
          (q[1] = MAC_TO_FLOWS /\ q[3] # "-") =>
             (q[2] \in DOMAIN mac_to_flows /\ q[3] \in mac_to_flows[q[2]])
    /\ \A d \in DOMAIN dpid_to_vmac :
          /\ Path(DPID_TO_VMAC, d) \in DOMAIN zk
          /\ zk[Path(DPID_TO_VMAC, d)] = dpid_to_vmac[d]
    /\ \A q \in PersistedVmac(zk) : q[2] \in DOMAIN dpid_to_vmac

\* C17 - notification after commit: every peer notification of a handler
\* is dispatched after a transaction of that handler has been accepted.
C17_NotifyAfterCommit ==
    \A i \in Rpcs(out) : \E j \in Accepted(out) : j < i

\* C18 - peer failure does not affect local state: a first sighting whose
\* peer call failed still ends with the Location in memory and in the
\* store and the local rule sent; no host is in the directory without its
\* local rule having been sent.
C18_PeerFailureLocalState ==
    /\ (/\ ev.type = "packet_in" /\ ev.kind = "first"
        /\ \E i \in Rpcs(out) : ~out[i].ok) =>
          /\ ev.mac \in DOMAIN mac_to_position
          /\ Path(MAC_TO_POSITION, ev.mac) \in DOMAIN zk
    /\ \A m \in DOMAIN mac_to_position :
          \E i \in 1..Len(sent) :
              /\ sent[i].dpid = mac_to_position[m][2]
              /\ sent[i].key = <<mac_to_position[m][4], "exact">>

\* C19 - recovery drains the failover log: when the replay has ended (the
\* peer having answered every call) the failover log is empty.
C19_RecoveryDrainsLog ==
    (/\ ev.type = "packet_in" /\ ev.via = "failover" /\ replay = <<>>
     /\ \A i \in Rpcs(out) : out[i].ok) =>
        FailoverNodes(zk) = {}

\* C20 - location update on migration: a packet-in from a known host at
\* another (switch, port) than the recorded one ends without an exception
\* with the Location (local datacenter, new switch, new port, locator), the
\* locator unchanged on the same switch and carrying the prefix of the new
\* switch otherwise.
C20_LocationUpdate ==
    (ev.type = "packet_in" /\ ev.kind \in {"moved_port", "moved_switch"}) =>
        /\ ~Raised(out)
        /\ ev.mac \in DOMAIN mac_to_position
        /\ LET loc == mac_to_position[ev.mac][4]
           IN  /\ mac_to_position[ev.mac] = <<Dcenter, ev.dpid, ev.port, loc>>
               /\ ev.kind = "moved_port" => loc = ev.old[4]
               /\ ev.kind = "moved_switch" =>
                     (/\ ev.dpid \in DOMAIN dpid_to_vmac
                      /\ get_swc_prefix(loc) = dpid_to_vmac[ev.dpid])

\* the calls of one method of the peer controller made by a handler
CallsOf(o, method) == { i \in Rpcs(o) : o[i].method = method }

\* C21 - gateway-crossing propagation: a packet-in makes exactly one
\* update_migration_flow and one update_gateway_flow call when it is a
\* migration of a host recorded at (gateway, gateway_port), and none of
\* either otherwise (first sighting, unchanged, any other migration).
C21_GatewayCrossing ==
    ev.type = "packet_in" =>
        LET crossing == /\ ev.kind \in {"moved_port", "moved_switch"}
                        /\ <<ev.old[2], ev.old[3]>> = <<gateway, gateway_port>>
            n == IF crossing THEN 1 ELSE 0
        IN  /\ Cardinality(CallsOf(out, "update_migration_flow")) = n
            /\ Cardinality(CallsOf(out, "update_gateway_flow")) = n

\* C22 - disconnect of an unknown switch is a no-op: a disconnect event for
\* a switch that has no entry in dpid_to_ip ends without an exception,
\* commits no transaction and leaves the in-memory maps and the store as
\* they are.
C22_UnknownDisconnectNoOp ==
    [][ (ev'.type = "disconnect" /\ ev'.dpid \notin DOMAIN dpid_to_ip) =>
          /\ ~Raised(out')
          /\ Commits(out') = {}
          /\ UNCHANGED << dpid_to_ip, ip_to_dpid, dpid_to_conns, mac_to_position,
                          mac_to_flows, dpid_to_vmac, dpid_to_topid, zk >> ]_vars

\* C24 - failover trigger: _do_failover is called only by a connect event
\* that takes switch_count from num_switches - 1 to num_switches, and a
\* replay starts only in such an event; every connect event adds one to
\* switch_count and no other event of the process changes it, so the call
\* happens at most once in a process and never before num_switches connect
\* events.
C24_FailoverTrigger ==
    [][ /\ ev'.failover =>
              /\ ev'.type = "connect"
              /\ switch_count = NumSwitches - 1
              /\ switch_count' = NumSwitches
        /\ (replay = <<>> /\ replay' # <<>>) => ev'.failover
        /\ ev'.type = "connect" => switch_count' = switch_count + 1
        /\ ev'.type \notin {"connect", "restart"} => switch_count' = switch_count
        /\ ev'.type = "restart" => switch_count' = 0 ]_vars

\* a connect event called _do_failover and the log held entries to replay
C24_Witness ==
    /\ ev.type = "connect" /\ ev.failover
    /\ switch_count = NumSwitches
    /\ replay # <<>>

\* the flow-mods of a handler that carry a switch-to-switch wildcard rule
MeshRules(o) ==
    { i \in FlowMods(o) : Len(o[i].match) = 3 /\ o[i].match[3] = SWITCH_MASK }

\* switch d has been sent the wildcard rule toward prefix p
HoldsRuleToward(snt, d, p) ==
    \E i \in 1..Len(snt) : snt[i].dpid = d /\ snt[i].key = <<p, SWITCH_MASK>>

\* C25 - mesh rules are one-directional by connect order: a switch-to-
\* switch wildcard rule is sent only in a connect event, to the entering
\* switch X, toward the prefix of another switch Y whose IP was in
\* ip_to_dpid before the event; and of two known switches the one that
\* connected earlier never holds the rule toward the later one.
C25_MeshOneDirectional ==
    [][ /\ \A i \in MeshRules(out') :
              /\ ev'.type = "connect"
              /\ out'[i].dpid = ev'.dpid
              /\ \E ip \in DOMAIN ip_to_dpid :
                    LET Y == ip_to_dpid[ip]
                    IN  /\ Y # ev'.dpid
                        /\ Y \in DOMAIN dpid_to_vmac
                        /\ out'[i].match[2] = dpid_to_vmac[Y]
        /\ \A X, Y \in DOMAIN dpid_to_vmac' :
              dpid_to_vmac'[X][2] < dpid_to_vmac'[Y][2] =>
                  ~HoldsRuleToward(sent', X, dpid_to_vmac'[Y]) ]_vars

\* two switches with mesh ports toward each other have connected and the
\* later one has been sent the rule toward the earlier one
C25_Witness ==
    /\ ev.type = "connect" /\ MeshRules(out) # {}
    /\ \E X, Y \in DOMAIN dpid_to_vmac :
          /\ dpid_to_vmac[X][2] < dpid_to_vmac[Y][2]
          /\ IpOf(Y) \in DOMAIN dpid_to_conns[X]
          /\ IpOf(X) \in DOMAIN dpid_to_conns[Y]
          /\ HoldsRuleToward(sent, Y, dpid_to_vmac[X])

\* C23 - single-writer access: while a packet-in handler stands between its
\* write of the Location in memory and its commit, blocked in the call of
\* the peer, nothing but that handler changes the Location directory, the
\* topology maps, the FlowRecord or the store.
C23_SingleWriter ==
    [][ (waiting # <<>> /\ waiting' # <<>>) =>
           UNCHANGED << mac_to_position, mac_to_flows, dpid_to_vmac, dpid_to_ip,
                        ip_to_dpid, dpid_to_conns, zk >> ]_vars

====
